---- MODULE Spec2Model ----
(***************************************************************************)
(* The Stopwatch component (src/src/components/Sidebar.tsx, lines 46-172), *)
(* and, further down, the login, the routes and the two pages that edit    *)
(* the backend's tables.                                                   *)
(*                                                                         *)
(* The component's state is its four useState hooks and its interval ref;  *)
(* the browser's state is the set of active interval handles.  A handler   *)
(* runs to completion in one task: React batches the handler's setState    *)
(* calls, re-renders and, the update coming from a click, runs the effect  *)
(* whose dependency changed (cleanup of the previous run, then the body)   *)
(* before the task ends, so no interval callback runs in between.  The     *)
(* interval callback's functional update is applied to the latest state.   *)
(*                                                                         *)
(* The handlers are invoked from every state, as the component's control   *)
(* surface; ResetDisabled, SelectDisabled and LabelButtonsRendered say     *)
(* which controls the rendered view offers in a state.                     *)
(*                                                                         *)
(* lastOp, arg, pre and preTimers are history variables: the operation     *)
(* that produced the current state, its argument, and the hooks and the    *)
(* active intervals before it.  prevOp is the operation before lastOp;     *)
(* phase and nTicks follow the run "start, ticks, stop" from the initial   *)
(* state.                                                                  *)
(*                                                                         *)
(* SpecBatched lets several handlers run before React re-renders: they all *)
(* close over the same render, and their setState calls are applied in     *)
(* order when the batch is flushed.  batch holds the handlers dispatched   *)
(* since the last render, flushed the batch the last flush committed.      *)
(*                                                                         *)
(* formatTime is a pure function; SpecFormat applies it to inputs fmtIn    *)
(* drawn from FormatInputs and keeps its result in fmtOut.  A string is    *)
(* modelled as the sequence of its characters.                             *)
(***************************************************************************)
EXTENDS Integers, Sequences, FiniteSets

\* Bounds of the model.
MaxTicks == 4
MaxHandle == 2
MaxBatch == 2

\* setTime((prevTime) => prevTime + 10)
TickMs == 10

\* useRef<number | null>(null): null and 0 are both falsy in if (intervalRef.current)
null == "null"
NoInterval == 0

timePointLabels ==
  <<"1° Tempo", "2° Tempo", "3° Tempo", "4° Tempo",
    "Tempo Supplementare", "Intervallo", "Fine Partita">>

\* A loop over the labels that runs one index past the end.
LabelsPastEnd ==
  {timePointLabels[i] : i \in 1..Len(timePointLabels)} \cup {"undefined"}

\* The labels the label buttons pass to handleSelectTimePoint.
Labels == {timePointLabels[i] : i \in 1..Len(timePointLabels)}

\* The handles window.setInterval may return: positive, not among the active ones.
Handles == 1..MaxHandle

VARIABLES time, isRunning, isSelectingLabel, currentDisplayedLabel,
          intervalRef, timers, mounted, lastOp, arg, pre, preTimers,
          prevOp, phase, nTicks, fmtIn, fmtOut, batch, flushed,
          env, localStorage, location, loginForm, queries, fetching,
          inFlight, matchesTable, nextMatchId, matches, editingMatchId,
          matchForm, playerStatsTable, nextStatId, playerStats,
          editingStatId, playerStatsForm, before, quickEntry

vars == <<time, isRunning, isSelectingLabel, currentDisplayedLabel,
          intervalRef, timers, mounted, lastOp, arg, pre, preTimers,
          prevOp, phase, nTicks, fmtIn, fmtOut, batch, flushed,
          env, localStorage, location, loginForm, queries, fetching,
          inFlight, matchesTable, nextMatchId, matches, editingMatchId,
          matchForm, playerStatsTable, nextStatId, playerStats,
          editingStatId, playerStatsForm, before, quickEntry>>

\* The variables of the Stopwatch that the pages' operations leave alone,
\* and the variables of the pages.
stopwatchVars ==
  <<time, isRunning, isSelectingLabel, currentDisplayedLabel, intervalRef,
    timers, mounted, pre, preTimers, prevOp, phase, nTicks, fmtIn, fmtOut,
    batch, flushed>>

pageVars ==
  <<env, localStorage, location, loginForm, queries, fetching, inFlight,
    matchesTable, nextMatchId, matches, editingMatchId, matchForm,
    playerStatsTable, nextStatId, playerStats, editingStatId,
    playerStatsForm, before, quickEntry>>

\* The values of the four hooks, as one render captures them.
Hooks ==
  [time |-> time, isRunning |-> isRunning,
   isSelectingLabel |-> isSelectingLabel,
   currentDisplayedLabel |-> currentDisplayedLabel]

InitialHooks ==
  [time |-> 0, isRunning |-> FALSE, isSelectingLabel |-> FALSE,
   currentDisplayedLabel |-> null]

clearInterval(ts, id) == ts \ {id}

\* if (intervalRef.current) { clearInterval(intervalRef.current); }
clearIfSet(ref, ts) == IF ref # NoInterval THEN clearInterval(ts, ref) ELSE ts

----
\* The handlers: c is the render the handler closed over, s the state its
\* setState calls are applied to.

handleStartStopInverted(c, s) ==
  [s EXCEPT !.isRunning = ~c.isRunning,
            !.isSelectingLabel = IF ~c.isRunning THEN FALSE ELSE @]

handleStartStopKeepsSelection(c, s) ==
  [s EXCEPT !.isRunning = ~c.isRunning]

handleStartStopRestarts(c, s) ==
  [s EXCEPT !.isRunning = ~c.isRunning,
            !.isSelectingLabel = IF c.isRunning THEN FALSE ELSE @,
            !.time = IF c.isRunning THEN @ ELSE 0]

handleStartStopAlwaysStarts(c, s) ==
  [s EXCEPT !.isRunning = TRUE,
            !.isSelectingLabel = IF c.isRunning THEN FALSE ELSE @]

handleStartStopClearsLabel(c, s) ==
  [s EXCEPT !.isRunning = ~c.isRunning,
            !.isSelectingLabel = IF c.isRunning THEN FALSE ELSE @,
            !.currentDisplayedLabel = IF c.isRunning THEN null ELSE @]

handleStartStop(c, s) ==
  [s EXCEPT !.isRunning = ~c.isRunning,
            !.isSelectingLabel = IF c.isRunning THEN FALSE ELSE @]

handleResetKeepsLabel(c, s) ==
  [s EXCEPT !.isRunning = FALSE, !.time = 0, !.isSelectingLabel = FALSE]

handleResetTogglesRunning(c, s) ==
  [s EXCEPT !.isRunning = ~c.isRunning, !.time = 0,
            !.isSelectingLabel = FALSE, !.currentDisplayedLabel = null]

handleReset(c, s) ==
  [s EXCEPT !.isRunning = FALSE, !.time = 0, !.isSelectingLabel = FALSE,
            !.currentDisplayedLabel = null]

handleShowLabelSelectionUnguarded(c, s) ==
  [s EXCEPT !.isSelectingLabel = TRUE]

handleShowLabelSelection(c, s) ==
  IF c.isRunning THEN [s EXCEPT !.isSelectingLabel = TRUE] ELSE s

handleSelectTimePointUnguarded(c, s, label) ==
  [s EXCEPT !.currentDisplayedLabel = label, !.isSelectingLabel = FALSE]

handleSelectTimePointKeepsSelecting(c, s, label) ==
  IF c.isRunning THEN [s EXCEPT !.currentDisplayedLabel = label] ELSE s

handleSelectTimePoint(c, s, label) ==
  IF c.isRunning
    THEN [s EXCEPT !.currentDisplayedLabel = label, !.isSelectingLabel = FALSE]
    ELSE s

tickCallbackOne(prevTime) == prevTime + 1

\* setTime(time + 10), time being the value the effect's closure captured.
tickCallbackStale(prevTime) == InitialHooks.time + TickMs

tickCallbackCountsDown(prevTime) == prevTime - TickMs

\* One animation frame instead of the interval's period.
tickCallbackFrame(prevTime) == prevTime + 16

tickCallback(prevTime) == prevTime + TickMs

----
\* formatTime.  A string is the sequence of its characters.

DigitChars == <<"0", "1", "2", "3", "4", "5", "6", "7", "8", "9">>

\* num.toString() of a non-negative integer
RECURSIVE toString(_)
toString(num) ==
  IF num < 10
    THEN <<DigitChars[num + 1]>>
    ELSE toString(num \div 10) \o <<DigitChars[(num % 10) + 1]>>

\* str.padStart(targetLength, padString), padString one character long
RECURSIVE padStart(_, _, _)
padStart(str, targetLength, padString) ==
  IF Len(str) >= targetLength
    THEN str
    ELSE padStart(padString \o str, targetLength, padString)

\* num.toString().padStart(2, '0').slice(-2)
padTruncates(num) ==
  LET padded == padStart(toString(num), 2, <<"0">>)
  IN  SubSeq(padded, Len(padded) - 1, Len(padded))

pad(num) == padStart(toString(num), 2, <<"0">>)

\* Math.round(milliseconds / 60000)
minutesRounded(milliseconds) == (milliseconds + 30000) \div 60000

minutesOf(milliseconds) == milliseconds \div 60000

secondsOf(milliseconds) == (milliseconds % 60000) \div 1000

centisecondsOf(milliseconds) == (milliseconds % 1000) \div 10

formatTime(milliseconds) ==
  pad(minutesOf(milliseconds)) \o <<":">> \o pad(secondsOf(milliseconds))
    \o <<".">> \o pad(centisecondsOf(milliseconds))

\* The inputs formatTime is applied to: every value below one minute, and
\* values around the minute, ten-minute, hundred-minute and thousand-minute
\* marks.
FormatInputs ==
  (0..59999) \cup
  {60000, 61234, 119999, 120000, 599999, 600000, 659990, 5999999, 6000000,
   6061234, 59999999, 60000000}

----
\* What the rendered view offers.

ResetDisabled(s) == s.isRunning /\ s.time = 0

SelectDisabled(s) == ~s.isRunning \/ s.isSelectingLabel

LabelButtonsRenderedWhileRunning(s) == s.isRunning

LabelButtonsRendered(s) == s.isSelectingLabel /\ s.isRunning

\* timePointLabels.map((label) => <Button key={label} ...>{label}</Button>)
RenderedLabelButtons(s) ==
  IF LabelButtonsRendered(s) THEN timePointLabels ELSE <<>>

----
\* useEffect(..., [isRunning]) after a commit in which isRunning changed to
\* `running`, with ts the active intervals: the previous run's cleanup, then
\* the body.

useEffectNeverClears(running, ts) ==
  IF running
    THEN \E id \in Handles \ ts :
           /\ intervalRef' = id
           /\ timers' = ts \cup {id}
    ELSE /\ intervalRef' = intervalRef
         /\ timers' = ts

useEffectDropsHandle(running, ts) ==
  IF running
    THEN \E id \in Handles \ clearIfSet(intervalRef, ts) :
           /\ intervalRef' = intervalRef
           /\ timers' = clearIfSet(intervalRef, ts) \cup {id}
    ELSE /\ intervalRef' = intervalRef
         /\ timers' = clearIfSet(intervalRef, clearIfSet(intervalRef, ts))

useEffect(running, ts) ==
  IF running
    THEN \E id \in Handles \ clearIfSet(intervalRef, ts) :
           /\ intervalRef' = id
           /\ timers' = clearIfSet(intervalRef, ts) \cup {id}
    ELSE /\ intervalRef' = intervalRef
         /\ timers' = clearIfSet(intervalRef, clearIfSet(intervalRef, ts))

\* The commit of a handler's batch: the hooks take the values of s, and the
\* effect runs when its dependency changed.
Commit(s, ts) ==
  /\ time' = s.time
  /\ isRunning' = s.isRunning
  /\ isSelectingLabel' = s.isSelectingLabel
  /\ currentDisplayedLabel' = s.currentDisplayedLabel
  /\ IF s.isRunning # isRunning
       THEN useEffect(s.isRunning, ts)
       ELSE intervalRef' = intervalRef /\ timers' = ts

\* The run "start, n ticks, stop" from the initial state.
NextPhase(op) ==
  CASE phase = "initial" /\ op = "toggleRunning" -> "started"
    [] phase = "started" /\ op = "tick" -> "started"
    [] phase = "started" /\ op = "toggleRunning" -> "stopped"
    [] OTHER -> "other"

History(op, a) ==
  /\ lastOp' = op
  /\ arg' = a
  /\ pre' = Hooks
  /\ preTimers' = timers
  /\ prevOp' = lastOp
  /\ phase' = NextPhase(op)
  /\ nTicks' = CASE NextPhase(op) = "other" -> 0
                  [] phase = "started" /\ op = "tick" -> nTicks + 1
                  [] OTHER -> nTicks
  /\ UNCHANGED <<fmtIn, fmtOut, batch, flushed>>
  /\ UNCHANGED pageVars

----
(***************************************************************************)
(* The pages behind the login: src/src/App.tsx and src/src/pages.          *)
(*                                                                         *)
(* location is the path whose element is rendered; localStorage holds the  *)
(* item isLoggedIn; env the two build-time credentials.  queries is the    *)
(* state of each query of the QueryClient ("absent": no data yet),         *)
(* fetching the queries whose fetch is under way; matches and playerStats  *)
(* are the data of the two list queries, matchesTable and playerStatsTable *)
(* the rows the backend holds.  A row's id is a positive number that is    *)
(* never reused, and NoId stands for the null of editingMatchId and        *)
(* editingStatId.  One mutation awaits its response at a time (inFlight);  *)
(* its field mounted says whether the component that issued it is still    *)
(* mounted.  The callbacks of useMutation run with the latest render's     *)
(* closure.  Of a form's fields the model keeps the names and one of the   *)
(* fields a reset puts back to its default: the date of a match, the       *)
(* right-foot goals of a player.  A query's data keeps its                 *)
(* reference when a refetch returns equal rows (structural sharing), so    *)
(* the effect depending on it runs when the rows have changed.  before is  *)
(* a history variable: the pages' state before the operation lastOp.       *)
(***************************************************************************)

undefined == "undefined"
NoId == 0

\* Bounds of the pages' model: rows ever inserted in a table.
MaxRows == 2

ProtectedPaths == {"/", "/matches", "/player-stats", "/stopwatch"}

\* The paths a browser is pointed at: the routes, and one no route matches.
Paths == ProtectedPaths \cup {"/login", "/nowhere"}

\* What localStorage holds under isLoggedIn when the application loads.
StoredValues == {null, "true", "false", "TRUE"}

ConfiguredIds == {undefined, "", "admin"}
ConfiguredPasswords == {undefined, "", "secret"}
EnteredIds == {"", "admin", "Admin"}
EnteredPasswords == {"", "secret", "secret "}

LoginFormDefaults == [id |-> "", password |-> ""]

\* z.string().min(1) on id and on password
loginFormSchema(values) == values.id # "" /\ values.password # ""

\* The route guard that lets every stored value but null through.
ProtectedRouteTruthy(storage, path) ==
  IF storage.isLoggedIn # null THEN path ELSE "/login"

\* The path rendered for a protected path: <Outlet /> or <Navigate to="/login" replace />
ProtectedRoute(storage, path) ==
  IF storage.isLoggedIn = "true" THEN path ELSE "/login"

\* <Routes>: the location once the matched route's element has rendered.
Routes(storage, path) ==
  CASE path = "/login" -> "/login"
    [] path \in ProtectedPaths -> ProtectedRoute(storage, path)
    [] OTHER -> path

\* !correctId
Falsy(v) == v = undefined \/ v = ""

\* onSubmit with || in place of && between the two comparisons.
LoginPage_onSubmitEitherMatches(values) ==
  LET correctId == env.VITE_APP_SINGLE_USER_ID
      correctPassword == env.VITE_APP_SINGLE_PASSWORD
  IN  IF Falsy(correctId) \/ Falsy(correctPassword)
        THEN [localStorage |-> localStorage, navigate |-> null,
              form |-> values]
      ELSE IF values.id = correctId \/ values.password = correctPassword
        THEN [localStorage |-> [localStorage EXCEPT !.isLoggedIn = "true"],
              navigate |-> "/", form |-> values]
      ELSE [localStorage |-> localStorage, navigate |-> null,
            form |-> [id |-> values.id, password |-> ""]]

\* LoginPage.onSubmit: the storage, the path navigated to (null: none) and
\* the form it leaves.
LoginPage_onSubmit(values) ==
  LET correctId == env.VITE_APP_SINGLE_USER_ID
      correctPassword == env.VITE_APP_SINGLE_PASSWORD
  IN  IF Falsy(correctId) \/ Falsy(correctPassword)
        THEN [localStorage |-> localStorage, navigate |-> null,
              form |-> values]
      ELSE IF values.id = correctId /\ values.password = correctPassword
        THEN [localStorage |-> [localStorage EXCEPT !.isLoggedIn = "true"],
              navigate |-> "/", form |-> values]
      ELSE [localStorage |-> localStorage, navigate |-> null,
            form |-> [id |-> values.id, password |-> ""]]

----
\* The query cache.

QueryKeys ==
  {"matches", "latestMatches", "playerStats", "uniquePlayerNames",
   "totalPlayerStats"}

\* The useQuery hooks of the element rendered at a path.
QueriesOf(path) ==
  CASE path = "/" -> {"latestMatches", "totalPlayerStats"}
    [] path = "/matches" -> {"matches"}
    [] path = "/player-stats" -> {"playerStats", "uniquePlayerNames"}
    [] OTHER -> {}

\* The table a query reads: .from('matches'), .from('player_stats') and
\* the view player_total_stats over player_stats.
TableOf(key) ==
  IF key \in {"matches", "latestMatches"} THEN "matches" ELSE "player_stats"

\* A mounting useQuery fetches a query that has no data, is invalidated or
\* is stale; uniquePlayerNames stays fresh for staleTime (5 minutes).
FetchedOnMount(key) ==
  queries[key] # "success" \/ key # "uniquePlayerNames"

\* queryClient.invalidateQueries({ queryKey: [key] })
invalidateQueries(q, key) ==
  [k \in QueryKeys |->
     IF k = key /\ q[k] # "absent" THEN "invalidated" ELSE q[k]]

\* The invalidated queries that have an observer are refetched.
Refetched(q, keys) ==
  {k \in keys : k \in QueriesOf(location) /\ q[k] # "absent"}

----
\* Strings of the match form, as sequences of characters.

IsWhiteSpace(ch) == ch = " "

RECURSIVE trimStart(_)
trimStart(s) ==
  IF s # <<>> /\ IsWhiteSpace(Head(s)) THEN trimStart(Tail(s)) ELSE s

RECURSIVE trimEnd(_)
trimEnd(s) ==
  IF s # <<>> /\ IsWhiteSpace(s[Len(s)])
    THEN trimEnd(SubSeq(s, 1, Len(s) - 1)) ELSE s

\* String.prototype.trim
trim(s) == trimEnd(trimStart(s))

toLowerCaseChar(ch) ==
  CASE ch = "A" -> "a"
    [] ch = "B" -> "b"
    [] OTHER -> ch

\* String.prototype.toLowerCase
toLowerCase(s) == [i \in 1..Len(s) |-> toLowerCaseChar(s[i])]

HomeNames == {<<>>, <<"a">>, <<"A", " ">>}
AwayNames == {<<>>, <<"a">>, <<"b">>}
Dates == {undefined, "2024-05-01"}
Goals == {0, 1}
PlayerNames == {<<>>, <<"p">>}

MatchFormDefaults ==
  [home_team_id |-> <<>>, away_team_id |-> <<>>, match_date |-> undefined]

matchFormSchema(values) ==
  /\ values.match_date # undefined
  /\ Len(values.home_team_id) >= 1
  /\ Len(values.away_team_id) >= 1

PlayerStatsFormDefaults == [player_name |-> <<>>, right_foot_goals |-> 0]

playerStatsFormSchema(values) ==
  /\ Len(values.player_name) >= 1
  /\ values.right_foot_goals >= 0

NoMutation ==
  [fn |-> "none", table |-> "none", id |-> NoId,
   values |-> MatchFormDefaults, mounted |-> FALSE]

\* The body of MatchesPage's effect: the form it leaves.  hasData: matches
\* is not undefined.
MatchesPage_useEffect(id, hasData, data, form) ==
  IF id # NoId /\ hasData
    THEN IF id \in DOMAIN data THEN data[id] ELSE form
    ELSE MatchFormDefaults

\* The body of PlayerStatsPage's effect: the form it leaves.
PlayerStatsPage_useEffect(id, hasData, data, form) ==
  IF id # NoId /\ hasData
    THEN IF id \in DOMAIN data THEN data[id] ELSE form
    ELSE PlayerStatsFormDefaults

\* onSubmit comparing the two names as they were typed.
MatchesPage_onSubmitExact(values, id) ==
  IF values.home_team_id = values.away_team_id
    THEN NoMutation
  ELSE IF id # NoId
    THEN [fn |-> "update", table |-> "matches", id |-> id,
          values |-> values, mounted |-> TRUE]
  ELSE [fn |-> "insert", table |-> "matches", id |-> NoId,
        values |-> values, mounted |-> TRUE]

\* MatchesPage.onSubmit: the mutation it issues.
MatchesPage_onSubmit(values, id) ==
  IF toLowerCase(trim(values.home_team_id))
       = toLowerCase(trim(values.away_team_id))
    THEN NoMutation
  ELSE IF id # NoId
    THEN [fn |-> "update", table |-> "matches", id |-> id,
          values |-> values, mounted |-> TRUE]
  ELSE [fn |-> "insert", table |-> "matches", id |-> NoId,
        values |-> values, mounted |-> TRUE]

\* PlayerStatsPage.onSubmit: the mutation it issues.
PlayerStatsPage_onSubmit(values, id) ==
  IF id # NoId
    THEN [fn |-> "update", table |-> "player_stats", id |-> id,
          values |-> values, mounted |-> TRUE]
  ELSE [fn |-> "insert", table |-> "player_stats", id |-> NoId,
        values |-> values, mounted |-> TRUE]

\* form.reset of addMatchMutation.onSuccess
addMatchMutation_onSuccess(form) ==
  [home_team_id |-> form.home_team_id, away_team_id |-> form.away_team_id,
   match_date |-> undefined]

\* form.reset of addPlayerStatMutation.onSuccess
addPlayerStatMutation_onSuccess(form) ==
  [player_name |-> form.player_name, right_foot_goals |-> 0]

\* if (editingMatchId) setEditingMatchId(null), and the same for editingStatId
deleteMutation_onSuccess(editingId) ==
  IF editingId # NoId THEN NoId ELSE editingId

\* The backend applies a mutation to a table's rows.
Apply(rows, m, newId) ==
  CASE m.fn = "insert" ->
         [i \in DOMAIN rows \cup {newId} |->
            IF i = newId THEN m.values ELSE rows[i]]
    [] m.fn = "update" ->
         [i \in DOMAIN rows |-> IF i = m.id THEN m.values ELSE rows[i]]
    [] m.fn = "delete" ->
         [i \in DOMAIN rows \ {m.id} |-> rows[i]]

Snapshot ==
  [localStorage |-> localStorage, loginForm |-> loginForm,
   editingMatchId |-> editingMatchId, matchForm |-> matchForm,
   editingStatId |-> editingStatId, playerStatsForm |-> playerStatsForm,
   inFlight |-> inFlight]

NothingKept ==
  [table |-> "none", home_team_id |-> <<>>, away_team_id |-> <<>>,
   player_name |-> <<>>]

\* lastOp and arg as for the Stopwatch; before is the pages' state before
\* the operation; quickEntry holds what the onSuccess of the last add kept
\* in its form, until an operation other than a fetch follows.
PageHistory(op, a) ==
  /\ lastOp' = op
  /\ arg' = a
  /\ before' = Snapshot
  /\ quickEntry' =
       CASE op = "insert" /\ inFlight.mounted ->
              [table |-> inFlight.table,
               home_team_id |-> matchForm.home_team_id,
               away_team_id |-> matchForm.away_team_id,
               player_name |-> playerStatsForm.player_name]
         [] op = "fetched" -> quickEntry
         [] OTHER -> NothingKept
  /\ UNCHANGED <<env, stopwatchVars>>

\* The element of a new location mounts: component state starts afresh and
\* its queries fetch; a click on the link of the current page changes nothing.
Navigate(storage, to) ==
  LET target == Routes(storage, to)
      moved == target # location
  IN  /\ location' = target
      /\ loginForm' = IF moved THEN LoginFormDefaults ELSE loginForm
      /\ editingMatchId' = IF moved THEN NoId ELSE editingMatchId
      /\ matchForm' = IF moved THEN MatchFormDefaults ELSE matchForm
      /\ editingStatId' = IF moved THEN NoId ELSE editingStatId
      /\ playerStatsForm' =
           IF moved THEN PlayerStatsFormDefaults ELSE playerStatsForm
      /\ fetching' =
           IF moved
             THEN fetching \cup {k \in QueriesOf(target) : FetchedOnMount(k)}
             ELSE fetching
      /\ inFlight' =
           IF moved /\ inFlight.fn # "none"
             THEN [inFlight EXCEPT !.mounted = FALSE] ELSE inFlight

InitData ==
  /\ loginForm = LoginFormDefaults
  /\ queries = [k \in QueryKeys |-> "absent"]
  /\ inFlight = NoMutation
  /\ matchesTable = <<>>
  /\ nextMatchId = 1
  /\ matches = <<>>
  /\ editingMatchId = NoId
  /\ matchForm = MatchFormDefaults
  /\ playerStatsTable = <<>>
  /\ nextStatId = 1
  /\ playerStats = <<>>
  /\ editingStatId = NoId
  /\ playerStatsForm = PlayerStatsFormDefaults

\* The application loaded at a path by a logged-in user.
InitPages(path) ==
  /\ InitData
  /\ env = [VITE_APP_SINGLE_USER_ID |-> "admin",
            VITE_APP_SINGLE_PASSWORD |-> "secret"]
  /\ localStorage = [isLoggedIn |-> "true"]
  /\ location = path
  /\ fetching = QueriesOf(path)
  /\ before = Snapshot
  /\ quickEntry = NothingKept

----
InitStopwatch ==
  /\ time = 0
  /\ isRunning = FALSE
  /\ isSelectingLabel = FALSE
  /\ currentDisplayedLabel = null
  /\ intervalRef = NoInterval
  /\ timers = {}
  /\ mounted = TRUE
  /\ lastOp = "init"
  /\ arg = null
  /\ pre = InitialHooks
  /\ preTimers = {}
  /\ prevOp = "init"
  /\ phase = "initial"
  /\ nTicks = 0
  /\ batch = <<>>
  /\ flushed = <<>>

Init ==
  /\ InitStopwatch
  /\ fmtIn = 0
  /\ fmtOut = <<>>
  /\ InitPages("/stopwatch")

toggleRunning ==
  /\ mounted
  /\ Commit(handleStartStop(Hooks, Hooks), timers)
  /\ History("toggleRunning", null)
  /\ UNCHANGED mounted

reset ==
  /\ mounted
  /\ Commit(handleReset(Hooks, Hooks), clearIfSet(intervalRef, timers))
  /\ History("reset", null)
  /\ UNCHANGED mounted

\* The handler throws when the timer is not running: the operation is not
\* defined there.
requestLabelSelectionStrict ==
  /\ mounted
  /\ isRunning
  /\ Commit(handleShowLabelSelection(Hooks, Hooks), timers)
  /\ History("requestLabelSelection", null)
  /\ UNCHANGED mounted

requestLabelSelection ==
  /\ mounted
  /\ Commit(handleShowLabelSelection(Hooks, Hooks), timers)
  /\ History("requestLabelSelection", null)
  /\ UNCHANGED mounted

selectLabel ==
  /\ mounted
  /\ \E label \in Labels :
       /\ Commit(handleSelectTimePoint(Hooks, Hooks, label), timers)
       /\ History("selectLabel", label)
  /\ UNCHANGED mounted

\* The interval callback of an active interval.
tick ==
  /\ \E id \in timers : TRUE
  /\ time < MaxTicks * TickMs
  /\ time' = IF mounted THEN tickCallback(time) ELSE time
  /\ History("tick", null)
  /\ UNCHANGED <<isRunning, isSelectingLabel, currentDisplayedLabel,
                 intervalRef, timers, mounted>>

unmountLeaks ==
  /\ mounted
  /\ mounted' = FALSE
  /\ timers' = timers
  /\ History("unmount", null)
  /\ UNCHANGED <<time, isRunning, isSelectingLabel, currentDisplayedLabel,
                 intervalRef>>

\* The hosting view is torn down: the effect's cleanup runs.
unmount ==
  /\ mounted
  /\ mounted' = FALSE
  /\ timers' = clearIfSet(intervalRef, timers)
  /\ History("unmount", null)
  /\ UNCHANGED <<time, isRunning, isSelectingLabel, currentDisplayedLabel,
                 intervalRef>>

Next ==
  \/ toggleRunning
  \/ reset
  \/ requestLabelSelection
  \/ selectLabel
  \/ tick
  \/ unmount

Spec == Init /\ [][Next]_vars

----
\* The operator's clicks: a handler runs only when the rendered view offers
\* its control.

clickStartStop == toggleRunning

clickReset == ~ResetDisabled(Hooks) /\ reset

clickSelectPeriod == ~SelectDisabled(Hooks) /\ requestLabelSelection

clickLabel == RenderedLabelButtons(Hooks) # <<>> /\ selectLabel

NextUI ==
  \/ clickStartStop
  \/ clickReset
  \/ clickSelectPeriod
  \/ clickLabel
  \/ tick
  \/ unmount

SpecUI == Init /\ [][NextUI]_vars

----
\* Handlers dispatched before React re-renders.

Dispatched(op, label) == [op |-> op, label |-> label]

\* The handler a dispatched entry runs: c the render it closed over, s the
\* state its setState calls are applied to.
ApplyHandler(c, s, b) ==
  CASE b.op = "toggleRunning" -> handleStartStop(c, s)
    [] b.op = "reset" -> handleReset(c, s)
    [] b.op = "requestLabelSelection" -> handleShowLabelSelection(c, s)
    [] b.op = "selectLabel" -> handleSelectTimePoint(c, s, b.label)

\* The queued setState calls of the batch, applied in order.
RECURSIVE ApplyBatch(_, _, _)
ApplyBatch(c, s, bs) ==
  IF bs = <<>>
    THEN s
    ELSE ApplyBatch(c, ApplyHandler(c, s, Head(bs)), Tail(bs))

\* The control of the entry is offered by the render on screen.
Offered(b) ==
  CASE b.op = "toggleRunning" -> TRUE
    [] b.op = "reset" -> ~ResetDisabled(Hooks)
    [] b.op = "requestLabelSelection" -> ~SelectDisabled(Hooks)
    [] b.op = "selectLabel" -> LabelButtonsRendered(Hooks)

\* A handler runs: its setState calls are queued; handleReset's
\* clearInterval takes effect at once.
dispatch ==
  /\ mounted
  /\ Len(batch) < MaxBatch
  /\ \E b \in {Dispatched(op, null) :
                 op \in {"toggleRunning", "reset", "requestLabelSelection"}}
               \cup {Dispatched("selectLabel", label) : label \in Labels} :
       /\ Offered(b)
       /\ batch' = Append(batch, b)
       /\ timers' = IF b.op = "reset" THEN clearIfSet(intervalRef, timers)
                                      ELSE timers
  /\ UNCHANGED <<time, isRunning, isSelectingLabel, currentDisplayedLabel,
                 intervalRef, mounted, lastOp, arg, pre, preTimers, prevOp,
                 phase, nTicks, fmtIn, fmtOut, flushed>>
  /\ UNCHANGED pageVars

\* React re-renders: the queued updates are committed and the effect runs.
flush ==
  /\ batch # <<>>
  /\ Commit(ApplyBatch(Hooks, Hooks, batch), timers)
  /\ lastOp' = "flush"
  /\ arg' = null
  /\ pre' = Hooks
  /\ preTimers' = timers
  /\ prevOp' = lastOp
  /\ phase' = "other"
  /\ nTicks' = 0
  /\ flushed' = batch
  /\ batch' = <<>>
  /\ UNCHANGED <<mounted, fmtIn, fmtOut>>
  /\ UNCHANGED pageVars

\* The interval callback and the teardown run in tasks of their own.
tickBetweenBatches == batch = <<>> /\ tick

unmountBetweenBatches == batch = <<>> /\ unmount

NextBatched ==
  \/ dispatch
  \/ flush
  \/ tickBetweenBatches
  \/ unmountBetweenBatches

SpecBatched == Init /\ [][NextBatched]_vars

----
\* formatTime applied to each input of FormatInputs.

InitFormat ==
  /\ InitStopwatch
  /\ fmtIn \in FormatInputs
  /\ fmtOut = <<>>
  /\ InitPages("/stopwatch")

\* {formatTime(time)} in the rendered view
renderTime ==
  /\ fmtOut = <<>>
  /\ fmtOut' = formatTime(fmtIn)
  /\ UNCHANGED <<time, isRunning, isSelectingLabel, currentDisplayedLabel,
                 intervalRef, timers, mounted, lastOp, arg, pre, preTimers,
                 prevOp, phase, nTicks, fmtIn, batch, flushed>>
  /\ UNCHANGED pageVars

NextFormat == renderTime

SpecFormat == InitFormat /\ [][NextFormat]_vars

----
\* Actions of the pages.

\* The browser loads the application at a path: a new QueryClient, the
\* localStorage of the last visit.
load ==
  /\ inFlight.fn = "none"
  /\ \E path \in Paths :
       /\ location' = Routes(localStorage, path)
       /\ fetching' = QueriesOf(Routes(localStorage, path))
       /\ PageHistory("load", path)
  /\ loginForm' = LoginFormDefaults
  /\ queries' = [k \in QueryKeys |-> "absent"]
  /\ matches' = <<>>
  /\ playerStats' = <<>>
  /\ editingMatchId' = NoId
  /\ matchForm' = MatchFormDefaults
  /\ editingStatId' = NoId
  /\ playerStatsForm' = PlayerStatsFormDefaults
  /\ UNCHANGED <<localStorage, inFlight, matchesTable, nextMatchId,
                 playerStatsTable, nextStatId>>

\* A <Link> of the sidebar, which AppLayout renders on the protected pages.
clickLink(path) ==
  /\ location \in ProtectedPaths
  /\ path \in ProtectedPaths
  /\ path # location
  /\ Navigate(localStorage, path)
  /\ PageHistory("clickLink", path)
  /\ UNCHANGED <<localStorage, queries, matchesTable, nextMatchId, matches,
                 playerStatsTable, nextStatId, playerStats>>

clickSidebarLink == \E path \in ProtectedPaths : clickLink(path)

\* The user fills in the login form.
typeCredentials ==
  /\ location = "/login"
  /\ \E id \in EnteredIds, password \in EnteredPasswords :
       loginForm' = [id |-> id, password |-> password]
  /\ PageHistory("typeCredentials", null)
  /\ UNCHANGED <<localStorage, location, queries, fetching, inFlight,
                 matchesTable, nextMatchId, matches, editingMatchId,
                 matchForm, playerStatsTable, nextStatId, playerStats,
                 editingStatId, playerStatsForm>>

\* form.handleSubmit(onSubmit) of the login form: onSubmit runs with values
\* that pass the schema.
submitLogin ==
  /\ location = "/login"
  /\ loginFormSchema(loginForm)
  /\ LET r == LoginPage_onSubmit(loginForm)
     IN  /\ localStorage' = r.localStorage
         /\ IF r.navigate # null
              THEN Navigate(r.localStorage, r.navigate)
              ELSE /\ loginForm' = r.form
                   /\ UNCHANGED <<location, editingMatchId, matchForm,
                                  editingStatId, playerStatsForm, fetching,
                                  inFlight>>
  /\ PageHistory("submitLogin", null)
  /\ UNCHANGED <<queries, matchesTable, nextMatchId, matches,
                 playerStatsTable, nextStatId, playerStats>>

\* A fetch completes: the query holds the table's rows, and the effect of
\* the mounted page runs if its data changed.
fetched ==
  \E key \in fetching :
    LET changedMatches ==
          key = "matches"
            /\ (queries[key] = "absent" \/ matchesTable # matches)
        changedStats ==
          key = "playerStats"
            /\ (queries[key] = "absent" \/ playerStatsTable # playerStats)
    IN  /\ fetching' = fetching \ {key}
        /\ queries' = [queries EXCEPT ![key] = "success"]
        /\ matches' = IF key = "matches" THEN matchesTable ELSE matches
        /\ playerStats' =
             IF key = "playerStats" THEN playerStatsTable ELSE playerStats
        /\ matchForm' =
             IF changedMatches /\ location = "/matches"
               THEN MatchesPage_useEffect(editingMatchId, TRUE,
                                          matchesTable, matchForm)
               ELSE matchForm
        /\ playerStatsForm' =
             IF changedStats /\ location = "/player-stats"
               THEN PlayerStatsPage_useEffect(editingStatId, TRUE,
                                              playerStatsTable,
                                              playerStatsForm)
               ELSE playerStatsForm
        /\ PageHistory("fetched", key)
        /\ UNCHANGED <<localStorage, location, loginForm, inFlight,
                       matchesTable, nextMatchId, editingMatchId,
                       playerStatsTable, nextStatId, editingStatId>>

----
\* The Matches page.

MatchesLoaded == location = "/matches" /\ queries["matches"] # "absent"

\* The user fills in the match form and submits it:
\* form.handleSubmit(onSubmit) runs onSubmit with values that pass the
\* schema.  The submit button is disabled while addMatchMutation or
\* updateMatchMutation is pending.
submitMatch ==
  /\ MatchesLoaded
  /\ inFlight.fn = "none"
  /\ editingMatchId = NoId => nextMatchId <= MaxRows
  /\ \E home \in HomeNames, away \in AwayNames, date \in Dates :
       LET values == [home_team_id |-> home, away_team_id |-> away,
                      match_date |-> date]
       IN  /\ matchFormSchema(values)
           /\ matchForm' = values
           /\ inFlight' = MatchesPage_onSubmit(values, editingMatchId)
  /\ PageHistory("submitMatch", null)
  /\ UNCHANGED <<localStorage, location, loginForm, queries, fetching,
                 matchesTable, nextMatchId, matches, editingMatchId,
                 playerStatsTable, nextStatId, playerStats, editingStatId,
                 playerStatsForm>>

\* handleEditMatch(match) of a listed match, then the effect.
clickEditMatch ==
  /\ MatchesLoaded
  /\ \E id \in DOMAIN matches :
       /\ editingMatchId' = id
       /\ matchForm' = IF id # editingMatchId
                         THEN MatchesPage_useEffect(id, TRUE, matches,
                                                    matchForm)
                         ELSE matchForm
  /\ PageHistory("clickEditMatch", null)
  /\ UNCHANGED <<localStorage, location, loginForm, queries, fetching,
                 inFlight, matchesTable, nextMatchId, matches,
                 playerStatsTable, nextStatId, playerStats, editingStatId,
                 playerStatsForm>>

\* handleCancelEdit, rendered while editing, then the effect.
clickCancelEditMatch ==
  /\ MatchesLoaded
  /\ editingMatchId # NoId
  /\ editingMatchId' = NoId
  /\ matchForm' = MatchesPage_useEffect(NoId, TRUE, matches, matchForm)
  /\ PageHistory("clickCancelEditMatch", null)
  /\ UNCHANGED <<localStorage, location, loginForm, queries, fetching,
                 inFlight, matchesTable, nextMatchId, matches,
                 playerStatsTable, nextStatId, playerStats, editingStatId,
                 playerStatsForm>>

\* handleDeleteMatch(match.id) of a listed match.
clickDeleteMatch ==
  /\ MatchesLoaded
  /\ inFlight.fn = "none"
  /\ \E id \in DOMAIN matches :
       inFlight' = [fn |-> "delete", table |-> "matches", id |-> id,
                    values |-> MatchFormDefaults, mounted |-> TRUE]
  /\ PageHistory("clickDeleteMatch", null)
  /\ UNCHANGED <<localStorage, location, loginForm, queries, fetching,
                 matchesTable, nextMatchId, matches, editingMatchId,
                 matchForm, playerStatsTable, nextStatId, playerStats,
                 editingStatId, playerStatsForm>>

\* The response of a mutation of the matches table: the backend has
\* applied it and onSuccess runs.
matchMutationSuccess ==
  /\ inFlight.table = "matches"
  /\ matchesTable' = Apply(matchesTable, inFlight, nextMatchId)
  /\ nextMatchId' = IF inFlight.fn = "insert" THEN nextMatchId + 1
                                              ELSE nextMatchId
  /\ queries' = invalidateQueries(queries, "matches")
  /\ fetching' = fetching \cup Refetched(queries, {"matches"})
  /\ editingMatchId' =
       CASE ~inFlight.mounted -> editingMatchId
         [] inFlight.fn = "insert" -> editingMatchId
         [] inFlight.fn = "update" -> NoId
         [] inFlight.fn = "delete" -> deleteMutation_onSuccess(editingMatchId)
  /\ matchForm' =
       CASE ~inFlight.mounted -> matchForm
         [] inFlight.fn = "insert" -> addMatchMutation_onSuccess(matchForm)
         [] inFlight.fn = "update" -> MatchFormDefaults
         [] inFlight.fn = "delete" ->
              IF deleteMutation_onSuccess(editingMatchId) # editingMatchId
                THEN MatchesPage_useEffect(NoId, TRUE, matches, matchForm)
                ELSE matchForm
  /\ inFlight' = NoMutation
  /\ PageHistory(inFlight.fn, "matches")
  /\ UNCHANGED <<localStorage, location, loginForm, matches,
                 playerStatsTable, nextStatId, playerStats, editingStatId,
                 playerStatsForm>>

\* The request of a mutation fails: onError shows a toast.
mutationError ==
  /\ inFlight.fn # "none"
  /\ inFlight' = NoMutation
  /\ PageHistory("mutationError", inFlight.table)
  /\ UNCHANGED <<localStorage, location, loginForm, queries, fetching,
                 matchesTable, nextMatchId, matches, editingMatchId,
                 matchForm, playerStatsTable, nextStatId, playerStats,
                 editingStatId, playerStatsForm>>

----
\* The player statistics page.

PlayerStatsLoaded ==
  /\ location = "/player-stats"
  /\ queries["playerStats"] # "absent"
  /\ queries["uniquePlayerNames"] # "absent"

\* The user fills in the player statistics form and submits it:
\* form.handleSubmit(onSubmit) runs onSubmit with values that pass the
\* schema.  The submit button is disabled while a mutation of the form is
\* pending.
submitPlayerStat ==
  /\ PlayerStatsLoaded
  /\ inFlight.fn = "none"
  /\ editingStatId = NoId => nextStatId <= MaxRows
  /\ \E name \in PlayerNames, goals \in Goals :
       LET values == [player_name |-> name, right_foot_goals |-> goals]
       IN  /\ playerStatsFormSchema(values)
           /\ playerStatsForm' = values
           /\ inFlight' = PlayerStatsPage_onSubmit(values, editingStatId)
  /\ PageHistory("submitPlayerStat", null)
  /\ UNCHANGED <<localStorage, location, loginForm, queries, fetching,
                 matchesTable, nextMatchId, matches, editingMatchId,
                 matchForm, playerStatsTable, nextStatId, playerStats,
                 editingStatId>>

\* handleEditStat(stat) of a listed row, then the effect.
clickEditStat ==
  /\ PlayerStatsLoaded
  /\ \E id \in DOMAIN playerStats :
       /\ editingStatId' = id
       /\ playerStatsForm' =
            IF id # editingStatId
              THEN PlayerStatsPage_useEffect(id, TRUE, playerStats,
                                             playerStatsForm)
              ELSE playerStatsForm
  /\ PageHistory("clickEditStat", null)
  /\ UNCHANGED <<localStorage, location, loginForm, queries, fetching,
                 inFlight, matchesTable, nextMatchId, matches,
                 editingMatchId, matchForm, playerStatsTable, nextStatId,
                 playerStats>>

\* handleCancelEdit, rendered while editing, then the effect.
clickCancelEditStat ==
  /\ PlayerStatsLoaded
  /\ editingStatId # NoId
  /\ editingStatId' = NoId
  /\ playerStatsForm' =
       PlayerStatsPage_useEffect(NoId, TRUE, playerStats, playerStatsForm)
  /\ PageHistory("clickCancelEditStat", null)
  /\ UNCHANGED <<localStorage, location, loginForm, queries, fetching,
                 inFlight, matchesTable, nextMatchId, matches,
                 editingMatchId, matchForm, playerStatsTable, nextStatId,
                 playerStats>>

\* handleDeletePlayerStat(stat.id) of a listed row.
clickDeleteStat ==
  /\ PlayerStatsLoaded
  /\ inFlight.fn = "none"
  /\ \E id \in DOMAIN playerStats :
       inFlight' = [fn |-> "delete", table |-> "player_stats", id |-> id,
                    values |-> PlayerStatsFormDefaults, mounted |-> TRUE]
  /\ PageHistory("clickDeleteStat", null)
  /\ UNCHANGED <<localStorage, location, loginForm, queries, fetching,
                 matchesTable, nextMatchId, matches, editingMatchId,
                 matchForm, playerStatsTable, nextStatId, playerStats,
                 editingStatId, playerStatsForm>>

\* The response of a mutation of the player_stats table: the backend has
\* applied it and onSuccess runs.
playerStatMutationSuccess ==
  /\ inFlight.table = "player_stats"
  /\ playerStatsTable' = Apply(playerStatsTable, inFlight, nextStatId)
  /\ nextStatId' = IF inFlight.fn = "insert" THEN nextStatId + 1
                                             ELSE nextStatId
  /\ queries' =
       invalidateQueries(
         invalidateQueries(invalidateQueries(queries, "playerStats"),
                           "uniquePlayerNames"),
         "totalPlayerStats")
  /\ fetching' =
       fetching \cup
         Refetched(queries, {"playerStats", "uniquePlayerNames",
                             "totalPlayerStats"})
  /\ editingStatId' =
       CASE ~inFlight.mounted -> editingStatId
         [] inFlight.fn = "insert" -> editingStatId
         [] inFlight.fn = "update" -> NoId
         [] inFlight.fn = "delete" -> deleteMutation_onSuccess(editingStatId)
  /\ playerStatsForm' =
       CASE ~inFlight.mounted -> playerStatsForm
         [] inFlight.fn = "insert" ->
              addPlayerStatMutation_onSuccess(playerStatsForm)
         [] inFlight.fn = "update" -> PlayerStatsFormDefaults
         [] inFlight.fn = "delete" ->
              IF deleteMutation_onSuccess(editingStatId) # editingStatId
                THEN PlayerStatsPage_useEffect(NoId, TRUE, playerStats,
                                               playerStatsForm)
                ELSE playerStatsForm
  /\ inFlight' = NoMutation
  /\ PageHistory(inFlight.fn, "player_stats")
  /\ UNCHANGED <<localStorage, location, loginForm, matchesTable,
                 nextMatchId, matches, editingMatchId, matchForm,
                 playerStats>>

----
\* The login and the routes: the application loaded at any path, with any
\* stored item and any build-time credentials.

InitAuth ==
  /\ InitStopwatch
  /\ fmtIn = 0
  /\ fmtOut = <<>>
  /\ InitData
  /\ env \in [VITE_APP_SINGLE_USER_ID : ConfiguredIds,
              VITE_APP_SINGLE_PASSWORD : ConfiguredPasswords]
  /\ localStorage \in [isLoggedIn : StoredValues]
  /\ location \in {Routes(localStorage, path) : path \in Paths}
  /\ fetching = QueriesOf(location)
  /\ before = Snapshot
  /\ quickEntry = NothingKept

NextAuth ==
  \/ load
  \/ clickSidebarLink
  \/ typeCredentials
  \/ submitLogin
  \/ fetched

SpecAuth == InitAuth /\ [][NextAuth]_vars

----
\* The Matches page, loaded by a logged-in user.

InitMatches ==
  /\ InitStopwatch
  /\ fmtIn = 0
  /\ fmtOut = <<>>
  /\ InitPages("/matches")

NextMatches ==
  \/ fetched
  \/ submitMatch
  \/ clickEditMatch
  \/ clickCancelEditMatch
  \/ clickDeleteMatch
  \/ matchMutationSuccess
  \/ mutationError

SpecMatches == InitMatches /\ [][NextMatches]_vars

----
\* The Matches page and the Dashboard, with the sidebar's links between them.

clickMatchesLink == \E path \in {"/", "/matches"} : clickLink(path)

NextDashboard ==
  \/ clickMatchesLink
  \/ NextMatches

SpecDashboard == InitMatches /\ [][NextDashboard]_vars

----
\* The player statistics page and the Dashboard.

InitPlayerStats ==
  /\ InitStopwatch
  /\ fmtIn = 0
  /\ fmtOut = <<>>
  /\ InitPages("/player-stats")

clickPlayerStatsLink ==
  \E path \in {"/", "/player-stats"} : clickLink(path)

NextPlayerStats ==
  \/ clickPlayerStatsLink
  \/ fetched
  \/ submitPlayerStat
  \/ clickEditStat
  \/ clickCancelEditStat
  \/ clickDeleteStat
  \/ playerStatMutationSuccess
  \/ mutationError

SpecPlayerStats == InitPlayerStats /\ [][NextPlayerStats]_vars


----
\* C1: in every reachable state, selectingLabel = true implies running = true.
C1_SelectingImpliesRunning == isSelectingLabel => isRunning

\* The timer was stopped while the label selection was open.
C1_Witness ==
  /\ lastOp = "toggleRunning"
  /\ pre.isRunning /\ pre.isSelectingLabel
  /\ ~isRunning /\ ~isSelectingLabel

\* C2: toggleRunning always negates running; when it takes the timer from
\* running to stopped it also sets selectingLabel to false.
C2_ToggleNegatesRunning ==
  lastOp = "toggleRunning" =>
    /\ isRunning = ~pre.isRunning
    /\ (pre.isRunning => ~isSelectingLabel)

C2_Witness ==
  /\ lastOp = "toggleRunning"
  /\ pre.isRunning /\ pre.isSelectingLabel /\ pre.time > 0
  /\ ~isRunning

IsIdle ==
  /\ time = 0
  /\ ~isRunning
  /\ ~isSelectingLabel
  /\ currentDisplayedLabel = null

\* C3 as stated: reset is allowed in every reachable state, including while
\* running, and always produces elapsedMs = 0, running = false,
\* selectingLabel = false, displayedLabel = absent.
C3_ResetAllowedEverywhere ==
  /\ mounted => ~ResetDisabled(Hooks)
  /\ lastOp = "reset" => IsIdle

\* C3 as amended: the Reset control is offered in every reachable state of the
\* mounted component except while running with elapsedMs = 0, and reset,
\* whenever it is invoked, produces elapsedMs = 0, running = false,
\* selectingLabel = false, displayedLabel = absent.
C3_ResetYieldsIdle ==
  /\ mounted /\ ~(isRunning /\ time = 0) => ~ResetDisabled(Hooks)
  /\ lastOp = "reset" => IsIdle

\* reset while running, with time elapsed and a label displayed.
C3_Witness ==
  /\ lastOp = "reset"
  /\ pre.isRunning /\ pre.time > 0 /\ pre.currentDisplayedLabel # null
  /\ IsIdle

\* C4: after reset or after toggleRunning turns running off the timer is
\* already canceled: no interval is active and no tick fires while running is
\* false, so a step that starts and ends with running false leaves elapsedMs
\* unchanged, or is a reset and leaves it 0.
C4_NoTickWhileStopped ==
  /\ ~isRunning => timers = {}
  /\ lastOp = "tick" => pre.isRunning
  /\ lastOp # "init" /\ ~pre.isRunning /\ ~isRunning =>
       \/ time = pre.time
       \/ lastOp = "reset" /\ time = 0

\* Stopped after some ticks, the interval gone.
C4_Witness ==
  /\ lastOp = "toggleRunning"
  /\ pre.isRunning /\ pre.time > 0 /\ preTimers # {}
  /\ ~isRunning /\ timers = {} /\ time = pre.time

\* C5: at every moment at most one repeating timer is active; toggling running
\* off cancels it and toggling running on establishes exactly one, the one the
\* ref holds.
C5_AtMostOneTimer ==
  /\ Cardinality(timers) <= 1
  /\ lastOp = "toggleRunning" /\ ~isRunning => timers = {}
  /\ lastOp = "toggleRunning" /\ isRunning => timers = {intervalRef}

\* Restarted after a stop: one interval again.
C5_Witness ==
  /\ lastOp = "toggleRunning"
  /\ ~pre.isRunning /\ pre.time > 0
  /\ isRunning /\ Cardinality(timers) = 1

\* C6: a tick adds exactly 10 to elapsedMs and happens only while running is
\* true; toggleRunning, requestLabelSelection and selectLabel leave elapsedMs
\* unchanged.
C6_TickAddsTen ==
  /\ lastOp = "tick" => pre.isRunning /\ isRunning /\ time = pre.time + 10
  /\ lastOp \in {"toggleRunning", "requestLabelSelection", "selectLabel"} =>
       time = pre.time

C6_Witness ==
  /\ lastOp = "tick"
  /\ pre.time = 10 /\ time = 20

\* C7: requestLabelSelection invoked while running is false leaves the whole
\* state unchanged; invoked while running is true it sets selectingLabel to
\* true and changes nothing else.
C7_RequestLabelSelection ==
  lastOp = "requestLabelSelection" =>
    /\ Hooks = IF pre.isRunning THEN [pre EXCEPT !.isSelectingLabel = TRUE]
                                ELSE pre
    /\ timers = preTimers

\* Invoked on a stopped timer.
C7_Witness ==
  /\ lastOp = "requestLabelSelection"
  /\ ~pre.isRunning /\ pre.time > 0
  /\ ~isSelectingLabel

\* C8: selectLabel(label) invoked while running is false is a no-op:
\* displayedLabel, selectingLabel, running and elapsedMs keep their values.
C8_SelectLabelStoppedNoOp ==
  lastOp = "selectLabel" /\ ~pre.isRunning =>
    /\ Hooks = pre
    /\ timers = preTimers

\* Invoked on a stopped timer with a label other than the displayed one.
C8_Witness ==
  /\ lastOp = "selectLabel"
  /\ ~pre.isRunning
  /\ pre.currentDisplayedLabel # null /\ arg # pre.currentDisplayedLabel
  /\ currentDisplayedLabel = pre.currentDisplayedLabel

\* C9: selectLabel(label) invoked while running is true sets displayedLabel to
\* label, replacing any displayed label, sets selectingLabel to false and
\* leaves running true, whether or not requestLabelSelection came first.
C9_SelectLabelRunning ==
  lastOp = "selectLabel" /\ pre.isRunning =>
    /\ currentDisplayedLabel = arg
    /\ ~isSelectingLabel
    /\ isRunning
    /\ time = pre.time

\* A displayed label replaced, the selection not having been requested.
C9_Witness ==
  /\ lastOp = "selectLabel"
  /\ pre.isRunning /\ ~pre.isSelectingLabel
  /\ pre.currentDisplayedLabel # null /\ pre.currentDisplayedLabel # arg
  /\ currentDisplayedLabel = arg

\* C10: toggleRunning from stopped to running leaves elapsedMs, selectingLabel
\* and displayedLabel unchanged.
C10_StartKeepsFields ==
  lastOp = "toggleRunning" /\ ~pre.isRunning =>
    /\ time = pre.time
    /\ isSelectingLabel = pre.isSelectingLabel
    /\ currentDisplayedLabel = pre.currentDisplayedLabel

\* Resumed with time accumulated and a label displayed.
C10_Witness ==
  /\ lastOp = "toggleRunning"
  /\ ~pre.isRunning /\ pre.time > 0 /\ pre.currentDisplayedLabel # null
  /\ isRunning /\ time = pre.time

\* C11: applying reset twice in a row gives the same state as applying it
\* once, from every reachable state.
C11_ResetIdempotent ==
  prevOp = "reset" /\ lastOp = "reset" =>
    /\ Hooks = pre
    /\ timers = preTimers
    /\ handleReset(handleReset(pre, pre), handleReset(pre, pre)) = Hooks

C11_Witness ==
  /\ prevOp = "reset" /\ lastOp = "reset"
  /\ IsIdle /\ timers = {}

\* C12: from the initial state, start followed by n ticks followed by stop
\* yields elapsedMs = 10 * n and running = false (for n = 3, elapsedMs = 30).
C12_StartTicksStop ==
  phase = "stopped" =>
    /\ time = 10 * nTicks
    /\ ~isRunning
    /\ (nTicks = 3 => time = 30)

C12_Witness ==
  /\ phase = "stopped" /\ nTicks = 3
  /\ time = 30 /\ ~isRunning

\* The states of the spec's state machine.
StateOf(s) ==
  CASE s.isRunning /\ s.isSelectingLabel -> "RunningSelecting"
    [] s.isRunning /\ ~s.isSelectingLabel -> "Running"
    [] ~s.isRunning /\ s.time = 0 -> "Idle"
    [] OTHER -> "Stopped"

\* C13 as stated: toggleRunning from Running or RunningSelecting always leads
\* to Stopped, a state with running = false and elapsedMs > 0, and Idle is
\* left only by toggleRunning to Running.
C13_ToggleLeadsToStopped ==
  /\ lastOp = "toggleRunning" /\ pre.isRunning =>
       ~isRunning /\ time > 0 /\ StateOf(Hooks) = "Stopped"
  /\ lastOp # "init" /\ StateOf(pre) = "Idle" /\ StateOf(Hooks) # "Idle" =>
       lastOp = "toggleRunning" /\ StateOf(Hooks) = "Running"

\* C13 as amended: toggleRunning from Running or RunningSelecting always leads
\* to a state with running = false, selectingLabel = false and elapsedMs
\* unchanged, which is Stopped when elapsedMs > 0 and Idle when no tick came
\* since the start from Idle; Idle is left only by toggleRunning to Running.
C13_ToggleLeadsToStoppedOrIdle ==
  /\ lastOp = "toggleRunning" /\ pre.isRunning =>
       /\ ~isRunning /\ ~isSelectingLabel /\ time = pre.time
       /\ StateOf(Hooks) = IF pre.time > 0 THEN "Stopped" ELSE "Idle"
  /\ lastOp # "init" /\ StateOf(pre) = "Idle" /\ StateOf(Hooks) # "Idle" =>
       lastOp = "toggleRunning" /\ StateOf(Hooks) = "Running"

\* Stopped from RunningSelecting before the first tick: back in Idle.
C13_Witness ==
  /\ lastOp = "toggleRunning"
  /\ StateOf(pre) = "RunningSelecting" /\ pre.time = 0
  /\ StateOf(Hooks) = "Idle"

\* C14: whenever running is false or the component has been torn down no
\* timer is active, and no tick occurs after teardown.
C14_TimerReleased ==
  /\ (~isRunning \/ ~mounted) => timers = {}
  /\ lastOp = "tick" => mounted

\* Torn down while running: the interval is cleared.
C14_Witness ==
  /\ lastOp = "unmount" /\ ~mounted
  /\ isRunning /\ preTimers # {} /\ timers = {}

\* Reading a formatted time back: the fields of MM:SS.CC and their values.
IsDigitChar(ch) == \E d \in 1..10 : DigitChars[d] = ch

DigitValue(ch) == (CHOOSE d \in 1..10 : DigitChars[d] = ch) - 1

RECURSIVE ParseNat(_)
ParseNat(str) ==
  IF Len(str) = 0
    THEN 0
    ELSE ParseNat(SubSeq(str, 1, Len(str) - 1)) * 10 + DigitValue(str[Len(str)])

AllDigits(str) == \A i \in 1..Len(str) : IsDigitChar(str[i])

MinutesField(out) == SubSeq(out, 1, Len(out) - 6)

SecondsField(out) == SubSeq(out, Len(out) - 4, Len(out) - 3)

CentisecondsField(out) == SubSeq(out, Len(out) - 1, Len(out))

\* C15: formatTime(elapsedMs) is MM:SS.CC with MM = floor(elapsedMs / 60000)
\* padded to at least 2 digits and never truncated, SS = floor((elapsedMs mod
\* 60000) / 1000) and CC = floor((elapsedMs mod 1000) / 10) of exactly 2
\* digits; formatTime(0) = "00:00.00", formatTime(61234) = "01:01.23",
\* formatTime(600000) = "10:00.00".
C15_FormatTime ==
  fmtOut # <<>> =>
    /\ Len(fmtOut) >= 8
    /\ fmtOut[Len(fmtOut) - 5] = ":"
    /\ fmtOut[Len(fmtOut) - 2] = "."
    /\ AllDigits(MinutesField(fmtOut))
    /\ AllDigits(SecondsField(fmtOut))
    /\ AllDigits(CentisecondsField(fmtOut))
    /\ ParseNat(MinutesField(fmtOut)) = fmtIn \div 60000
    /\ (fmtIn \div 60000 >= 10 => MinutesField(fmtOut)[1] # "0")
    /\ (fmtIn \div 60000 >= 100 => Len(MinutesField(fmtOut)) >= 3)
    /\ ParseNat(SecondsField(fmtOut)) = (fmtIn % 60000) \div 1000
    /\ ParseNat(CentisecondsField(fmtOut)) = (fmtIn % 1000) \div 10
    /\ (fmtIn = 0 => fmtOut = <<"0", "0", ":", "0", "0", ".", "0", "0">>)
    /\ (fmtIn = 61234 => fmtOut = <<"0", "1", ":", "0", "1", ".", "2", "3">>)
    /\ (fmtIn = 600000 => fmtOut = <<"1", "0", ":", "0", "0", ".", "0", "0">>)

\* One hundred minutes: three digits of minutes.
C15_Witness ==
  /\ fmtIn = 6000000
  /\ fmtOut = <<"1", "0", "0", ":", "0", "0", ".", "0", "0">>

\* C16: for every elapsedMs from 0 to 59999 the minutes field produced by
\* formatTime is "00".
C16_MinutesZeroBelowOneMinute ==
  fmtOut # <<>> /\ fmtIn \in 0..59999 =>
    /\ MinutesField(fmtOut) = <<"0", "0">>
    /\ fmtOut[3] = ":"

C16_Witness ==
  /\ fmtIn = 59999
  /\ fmtOut = <<"0", "0", ":", "5", "9", ".", "9", "9">>

\* C17: in every reachable state displayedLabel is either absent or one of
\* the seven period labels of the fixed ordered set.
C17_DisplayedLabelInFixedSet ==
  /\ Len(timePointLabels) = 7
  /\ \/ currentDisplayedLabel = null
     \/ \E i \in 1..7 : currentDisplayedLabel = timePointLabels[i]

\* The last label of the set is displayed.
C17_Witness ==
  /\ lastOp = "selectLabel"
  /\ pre.currentDisplayedLabel = timePointLabels[1]
  /\ currentDisplayedLabel = timePointLabels[7]

\* C18: elapsedMs is never negative, and in any step in which running is true
\* before and after the step, elapsedMs does not decrease.
C18_ElapsedNonNegativeMonotone ==
  /\ time >= 0
  /\ lastOp # "init" /\ pre.isRunning /\ isRunning => time >= pre.time

C18_Witness ==
  /\ lastOp = "tick"
  /\ pre.isRunning /\ isRunning
  /\ pre.time = 20 /\ time = 30

HooksType ==
  [time : Nat, isRunning : BOOLEAN, isSelectingLabel : BOOLEAN,
   currentDisplayedLabel : {timePointLabels[i] : i \in 1..7} \cup {null}]

\* C19: each of toggleRunning, reset, requestLabelSelection and selectLabel is
\* defined in every reachable state of the mounted component, and the state it
\* yields is a well-defined timer state.
C19_OperationsTotal ==
  /\ Hooks \in HooksType
  /\ mounted =>
       /\ ENABLED toggleRunning
       /\ ENABLED reset
       /\ ENABLED requestLabelSelection
       /\ ENABLED selectLabel

\* The two guarded operations were invoked one after the other on a stopped
\* timer and left a well-defined state.
C19_Witness ==
  /\ prevOp = "selectLabel" /\ lastOp = "requestLabelSelection"
  /\ mounted /\ ~pre.isRunning /\ pre.time > 0
  /\ Hooks = pre /\ Hooks \in HooksType

\* C20: the per-label buttons are rendered exactly when selectingLabel is
\* true, one button per label of the fixed set in its order, so the operator
\* invokes selectLabel only in RunningSelecting; the "select period" control is
\* not offered while stopped or while already selecting.
C20_LabelButtonsWhenSelecting ==
  /\ LabelButtonsRendered(Hooks) <=> isSelectingLabel
  /\ RenderedLabelButtons(Hooks) =
       IF isSelectingLabel THEN timePointLabels ELSE <<>>
  /\ lastOp = "selectLabel" =>
       /\ StateOf(pre) = "RunningSelecting"
       /\ \E i \in 1..7 : arg = timePointLabels[i]
  /\ lastOp = "requestLabelSelection" => pre.isRunning /\ ~pre.isSelectingLabel
  /\ (~isRunning \/ isSelectingLabel) => SelectDisabled(Hooks)

\* A label button was clicked in RunningSelecting.
C20_Witness ==
  /\ lastOp = "selectLabel"
  /\ StateOf(pre) = "RunningSelecting"
  /\ arg = timePointLabels[2] /\ currentDisplayedLabel = arg
  /\ RenderedLabelButtons(Hooks) = <<>>

\* C21: if toggleRunning and requestLabelSelection are both dispatched from
\* the same rendered snapshot, in either order, the resulting state satisfies
\* selectingLabel implies running.
C21_BatchedToggleAndRequest ==
  /\ lastOp = "flush"
  /\ \/ flushed = <<Dispatched("toggleRunning", null),
                    Dispatched("requestLabelSelection", null)>>
     \/ flushed = <<Dispatched("requestLabelSelection", null),
                    Dispatched("toggleRunning", null)>>
  => (isSelectingLabel => isRunning)

\* C22: two toggleRunning invocations in a row return running to its original
\* value, also when the second is dispatched before the component has
\* re-rendered after the first.
C22_DoubleToggleRestoresRunning ==
  lastOp = "flush" =>
    /\ flushed = <<Dispatched("toggleRunning", null)>> =>
         isRunning = ~pre.isRunning
    /\ flushed = <<Dispatched("toggleRunning", null),
                   Dispatched("toggleRunning", null)>> =>
         isRunning = pre.isRunning

\* C23: displayedLabel changes only through selectLabel while running or
\* through reset; toggleRunning in either direction, requestLabelSelection and
\* tick leave it unchanged.
C23_LabelChangesOnlyBySelectOrReset ==
  /\ currentDisplayedLabel # pre.currentDisplayedLabel =>
       \/ lastOp = "selectLabel" /\ pre.isRunning
       \/ lastOp = "reset"
  /\ lastOp \in {"toggleRunning", "requestLabelSelection", "tick"} =>
       currentDisplayedLabel = pre.currentDisplayedLabel

\* A label still displayed after a stop and the restart that followed.
C23_Witness ==
  /\ prevOp = "toggleRunning" /\ lastOp = "toggleRunning"
  /\ ~pre.isRunning /\ isRunning
  /\ currentDisplayedLabel = timePointLabels[3]

\* C24: in every reachable state elapsedMs is a multiple of 10, so the
\* centiseconds shown by formatTime equal (elapsedMs mod 1000) / 10 with no
\* rounding loss.
C24_ElapsedMultipleOfTen ==
  /\ time % 10 = 0
  /\ ParseNat(CentisecondsField(formatTime(time))) * 10 = time % 1000

C24_Witness ==
  /\ time = 40
  /\ formatTime(time) = <<"0", "0", ":", "0", "0", ".", "0", "4">>

----
\* C25: the content of a protected path (dashboard, matches, player stats,
\* stopwatch) is rendered only while the stored item isLoggedIn is 'true';
\* a protected path requested with any other stored value, or none, ends
\* at /login.
C25_ProtectedContentOnlyWhenLoggedIn ==
  /\ location \in ProtectedPaths => localStorage.isLoggedIn = "true"
  /\ (lastOp = "load" /\ arg \in ProtectedPaths
        /\ localStorage.isLoggedIn # "true") => location = "/login"

C25_Witness ==
  /\ lastOp = "load"
  /\ arg = "/matches"
  /\ localStorage.isLoggedIn = "false"
  /\ location = "/login"

Configured ==
  /\ env.VITE_APP_SINGLE_USER_ID \notin {undefined, ""}
  /\ env.VITE_APP_SINGLE_PASSWORD \notin {undefined, ""}

Entered(values) ==
  /\ values.id = env.VITE_APP_SINGLE_USER_ID
  /\ values.password = env.VITE_APP_SINGLE_PASSWORD

\* C26: a login submission changes the stored item isLoggedIn only when
\* both credentials are configured and the entered id and password equal
\* them exactly; with a credential missing, or with the credentials
\* configured and an entered value that differs, the stored item is
\* unchanged and the location stays /login, and in the second case the
\* form keeps the entered id and has an empty password.
C26_LoginSubmission ==
  lastOp = "submitLogin" =>
    /\ localStorage # before.localStorage =>
          Configured /\ Entered(before.loginForm)
    /\ ~(Configured /\ Entered(before.loginForm)) =>
          localStorage = before.localStorage /\ location = "/login"
    /\ (Configured /\ ~Entered(before.loginForm)) =>
          loginForm = [id |-> before.loginForm.id, password |-> ""]

C26_Witness ==
  /\ lastOp = "submitLogin"
  /\ Configured
  /\ before.loginForm = [id |-> "admin", password |-> "secret "]
  /\ before.localStorage.isLoggedIn = null
  /\ localStorage.isLoggedIn = null
  /\ loginForm = [id |-> "admin", password |-> ""]

SameTeam(values) ==
  toLowerCase(trim(values.home_team_id))
    = toLowerCase(trim(values.away_team_id))

\* C27: a submission of the match form whose home and away names are equal
\* after trimming and lower-casing issues no mutation and leaves
\* editingMatchId unchanged; any other submission issues exactly one
\* mutation of the matches table with the submitted values, an update of
\* the edited match when one is being edited and an insert otherwise.
C27_SubmitMatch ==
  lastOp = "submitMatch" =>
    /\ before.inFlight.fn = "none"
    /\ editingMatchId = before.editingMatchId
    /\ SameTeam(matchForm) => inFlight.fn = "none"
    /\ ~SameTeam(matchForm) =>
          /\ inFlight.table = "matches"
          /\ inFlight.values = matchForm
          /\ inFlight.fn =
                IF before.editingMatchId # NoId THEN "update" ELSE "insert"
          /\ inFlight.id = before.editingMatchId

C27_Witness ==
  /\ lastOp = "submitMatch"
  /\ matchForm.home_team_id = <<"A", " ">>
  /\ matchForm.away_team_id = <<"a">>
  /\ editingMatchId # NoId
  /\ inFlight.fn = "none"

\* C28: after a successful add the form holds the names it held (home and
\* away team, player name) and defaults elsewhere, and it still holds the
\* names when the refetch of the list that the add invalidated has
\* completed and the effect has run.
C28_QuickEntryKept ==
  /\ (lastOp = "insert" /\ arg = "matches" /\ before.inFlight.mounted) =>
        matchForm = [home_team_id |-> before.matchForm.home_team_id,
                     away_team_id |-> before.matchForm.away_team_id,
                     match_date |-> undefined]
  /\ (lastOp = "insert" /\ arg = "player_stats"
        /\ before.inFlight.mounted) =>
        playerStatsForm =
          [player_name |-> before.playerStatsForm.player_name,
           right_foot_goals |-> 0]
  /\ (lastOp = "fetched" /\ arg = "matches"
        /\ quickEntry.table = "matches") =>
        /\ matchForm.home_team_id = quickEntry.home_team_id
        /\ matchForm.away_team_id = quickEntry.away_team_id
  /\ (lastOp = "fetched" /\ arg = "playerStats"
        /\ quickEntry.table = "player_stats") =>
        playerStatsForm.player_name = quickEntry.player_name

\* C29: a successful delete of the record being edited exits editing mode;
\* a successful delete of any other record leaves editingMatchId and
\* editingStatId unchanged.
C29_DeleteExitsEditingOfDeletedOnly ==
  /\ (lastOp = "delete" /\ arg = "matches" /\ before.inFlight.mounted) =>
        /\ before.editingMatchId = before.inFlight.id =>
              editingMatchId = NoId
        /\ before.editingMatchId # before.inFlight.id =>
              editingMatchId = before.editingMatchId
  /\ (lastOp = "delete" /\ arg = "player_stats"
        /\ before.inFlight.mounted) =>
        /\ before.editingStatId = before.inFlight.id =>
              editingStatId = NoId
        /\ before.editingStatId # before.inFlight.id =>
              editingStatId = before.editingStatId

\* C30: after a successful insert, update or delete no query that reads
\* the mutated table is left in the cache without being invalidated:
\* playerStats, uniquePlayerNames and totalPlayerStats for player_stats,
\* matches and latestMatches for matches.
C30_MutationInvalidatesReaders ==
  lastOp \in {"insert", "update", "delete"} =>
    \A k \in QueryKeys : TableOf(k) = arg => queries[k] # "success"

====
